---- MODULE Spec2Model ----
\* Model of gitlab_compare.py: the paginated fetch with retry/backoff, the
\* comparison by path, and the control flow of main (argument validation,
\* logger construction, two fetches, comparison, report writers, exit code).
EXTENDS Integers, Sequences, FiniteSets, TLC

\* ---------------------------------------------------------------- bounds
MaxPages == 2        \* non-empty pages a remote instance serves
MaxRetries == 2      \* largest --max-retries explored
MaxListLen == 3      \* longest sequence handed to compare_by_path alone
MaxFaults == MaxRetries + 1   \* failed projects.list responses injected per run

\* ------------------------------------------------- Python values, encoded
\* Optional[T] is a sequence of length <= 1: None is << >>, a value v is <<v>>.
\* A path string is the sequence of its '/'-separated segments; '' is << >>.
None == << >>
Some(v) == <<v>>

TruthyStr(o) == o # None /\ o[1] # ""
TruthyPath(o) == o # None /\ o[1] # << >>

\* Python `a or b` on optional strings / optional paths
OrStr(a, b) == IF TruthyStr(a) THEN a ELSE b
OrPath(a, b) == IF TruthyPath(a) THEN a ELSE b

\* path.split('/')[-1]
LastSegment(segs) == IF segs = << >> THEN "" ELSE segs[Len(segs)]

NoNamespace == [full_path |-> None, name |-> None, path |-> None]

normalize_project(p) ==
    LET ns == IF p.namespace = None THEN NoNamespace ELSE p.namespace[1]
        namespace == OrStr(OrStr(ns.full_path, ns.name), ns.path)
        path == OrPath(p.path_with_namespace, p.path)
        name == OrStr(p.name, IF path = None THEN None ELSE Some(LastSegment(path[1])))
    IN [id |-> IF p.id # None THEN ToString(p.id[1]) ELSE "",
        name |-> IF TruthyStr(name) THEN name[1] ELSE "",
        group |-> IF TruthyStr(namespace) THEN namespace[1] ELSE "",
        path |-> IF TruthyPath(path) THEN path[1] ELSE << >>,
        web_url |-> IF TruthyStr(p.web_url) THEN p.web_url[1] ELSE "",
        visibility |-> IF TruthyStr(p.visibility) THEN p.visibility[1] ELSE ""]

\* Raw project objects the remote API may return.
RawA1 == [id |-> Some(1), name |-> Some("a"), path_with_namespace |-> Some(<<"g", "a">>),
          path |-> Some(<<"a">>), web_url |-> Some("https://one/g/a"), visibility |-> Some("private"),
          namespace |-> Some([full_path |-> Some("g"), name |-> Some("G"), path |-> Some("g")])]
RawA2 == [id |-> Some(7), name |-> Some("a"), path_with_namespace |-> Some(<<"g", "a">>),
          path |-> Some(<<"a">>), web_url |-> Some("https://two/g/a"), visibility |-> Some("public"),
          namespace |-> Some([full_path |-> None, name |-> Some("G"), path |-> Some("g")])]
RawB == [id |-> Some(2), name |-> None, path_with_namespace |-> Some(<<"g", "b">>),
         path |-> None, web_url |-> None, visibility |-> Some("internal"),
         namespace |-> None]
RawNoPath == [id |-> None, name |-> Some(""), path_with_namespace |-> None,
              path |-> Some(<< >>), web_url |-> Some(""), visibility |-> None,
              namespace |-> Some([full_path |-> Some(""), name |-> None, path |-> None])]

RawProjects == {RawA1, RawA2, RawB, RawNoPath}

NormRecords == {normalize_project(r) : r \in RawProjects}

\* ------------------------------------------------------- compare_by_path
RECURSIVE BuildIndex(_, _)
\* index2 = {p['path']: p for p in list2 if p.get('path')}, over list2[1..n]
BuildIndex(list2, n) ==
    IF n = 0 THEN [k \in {} |-> 0]
    ELSE LET prev == BuildIndex(list2, n - 1)
             p == list2[n]
         IN IF p.path # << >>
            THEN [k \in (DOMAIN prev) \cup {p.path} |-> IF k = p.path THEN p ELSE prev[k]]
            ELSE prev

RECURSIVE ScanList1(_, _, _)
\* the for-loop over list1[1..n], appending (p1, index2[path])
ScanList1(list1, index2, n) ==
    IF n = 0 THEN << >>
    ELSE LET rest == ScanList1(list1, index2, n - 1)
             p1 == list1[n]
         IN IF p1.path # << >> /\ p1.path \in DOMAIN index2
            THEN Append(rest, <<p1, index2[p1.path]>>)
            ELSE rest

RECURSIVE ScanNoFilter(_, _, _)
ScanNoFilter(list1, list2, n) ==
    IF n = 0 THEN << >>
    ELSE LET rest == ScanNoFilter(list1, list2, n - 1)
             p1 == list1[n]
             hits == {j \in 1..Len(list2) : list2[j].path = p1.path}
         IN IF hits # {}
            THEN Append(rest, <<p1, list2[CHOOSE j \in hits : \A h \in hits : h <= j]>>)
            ELSE rest

\* mutant: the two truthiness tests on 'path' are dropped
compare_by_path_NoEmptyFilter(list1, list2) == ScanNoFilter(list1, list2, Len(list1))

RECURSIVE JoinAll(_, _, _)
JoinAll(list1, list2, n) ==
    IF n = 0 THEN << >>
    ELSE LET p1 == list1[n]
             matches == SelectSeq(list2, LAMBDA p2 : p2.path = p1.path /\ p2.path # << >>)
         IN JoinAll(list1, list2, n - 1) \o [j \in 1..Len(matches) |-> <<p1, matches[j]>>]

\* mutant: a nested-loop join instead of the index lookup
compare_by_path_NestedJoin(list1, list2) == JoinAll(list1, list2, Len(list1))

compare_by_path(list1, list2) ==
    ScanList1(list1, BuildIndex(list2, Len(list2)), Len(list1))


\* ------------------------------------------------------------- the remote
\* Pages a remote instance may serve (each non-empty); after the last one
\* every page is empty.
PageChoices == {<<RawB>>, <<RawNoPath, RawA1>>}

RECURSIVE PageSeqs(_)
PageSeqs(n) ==
    IF n = 0 THEN {<< >>}
    ELSE PageSeqs(n - 1) \cup {Append(s, pg) : s \in {t \in PageSeqs(n - 1) : Len(t) = n - 1}, pg \in PageChoices}

\* gl.projects.list(page=page, ...) when the request succeeds
PageAt(pages, page) == IF page \in 1..Len(pages) THEN pages[page] ELSE << >>

\* Exceptions: the class caught by main and the response_code attribute.
NoExc == [type |-> "none", response_code |-> None, origin |-> "none"]
Exc(t, code, origin) == [type |-> t, response_code |-> code, origin |-> origin]

\* what gl.auth() may raise
ConnectErrors ==
    {Exc("GitlabAuthenticationError", Some(401), "connect"),
     Exc("GitlabError", Some(500), "connect"),
     Exc("Exception", None, "connect")}

\* what gl.projects.list() may raise
ListErrors ==
    {Exc("GitlabError", Some(c), "list") : c \in {429, 500, 502, 503, 504, 404, 403}}
    \cup {Exc("GitlabAuthenticationError", Some(401), "list"),
          Exc("GitlabError", None, "list"),
          Exc("Exception", None, "list")}

\* ------------------------------------------------------------ fetch logic
TransientCodes_With404 == {429, 500, 502, 503, 504, 404}

TransientCodes == {429, 500, 502, 503, 504}

\* response_code in {429, 500, 502, 503, 504}
IsTransient(code) == code # None /\ code[1] \in TransientCodes

\* `if not transient or attempt >= max_retries: raise`
GivesUp(code, attempt, max_retries) == ~IsTransient(code) \/ attempt >= max_retries

RECURSIVE Pow(_, _)
Pow(b, n) == IF n = 0 THEN 1 ELSE b * Pow(b, n - 1)

\* A float is a fraction <<numerator, denominator>>.
\* sleep_for = retry_backoff ** attempt
SleepFor(retry_backoff, attempt) ==
    <<Pow(retry_backoff[1], attempt), Pow(retry_backoff[2], attempt)>>

\* mutant: projects = normalized instead of projects.extend(normalized)
Accumulate_Overwrite(projects, normalized) == normalized

\* projects.extend(normalized)
Accumulate(projects, normalized) == projects \o normalized

NormalizePage(page_items) == [k \in 1..Len(page_items) |-> normalize_project(page_items[k])]

\* --------------------------------------------------------------- arguments
ArgFlags == {"url1", "token1", "url2", "token2", "out_json", "out_csv", "json_prefix", "csv_prefix"}

\* --log-file and the file system under it
LogSetups ==
    {[log_file |-> None, makedirs_ok |-> TRUE, open_ok |-> TRUE],
     [log_file |-> Some(<<"fetch.log">>), makedirs_ok |-> TRUE, open_ok |-> TRUE],
     [log_file |-> Some(<<"fetch.log">>), makedirs_ok |-> TRUE, open_ok |-> FALSE],
     [log_file |-> Some(<<"reports", "fetch.log">>), makedirs_ok |-> TRUE, open_ok |-> TRUE],
     [log_file |-> Some(<<"reports", "fetch.log">>), makedirs_ok |-> FALSE, open_ok |-> FALSE]}

\* --retry-backoff 2.0 and the default 1.5
BackoffChoices == {<<2, 1>>, <<3, 2>>}

\* the 'missing' list of parse_args
Missing(a) == {k \in {"url1", "token1", "url2", "token2"} : ~a[k]}

\* mutant: the mutual-exclusion test of --out-json/--out-csv is missing
UsageError_NoExclusive(a) ==
    \/ Missing(a) # {}
    \/ ~(a.out_json \/ a.out_csv \/ a.json_prefix \/ a.csv_prefix)

\* the three parser.error(...) conditions of parse_args
UsageError(a) ==
    \/ Missing(a) # {}
    \/ (a.out_json /\ a.out_csv)
    \/ ~(a.out_json \/ a.out_csv \/ a.json_prefix \/ a.csv_prefix)

\* -------------------------------------------------------------- exit codes
ArgparseErrorExit == 2
UncaughtExit == 1

ExitCode(category) ==
    CASE category = "success" -> 0
      [] category = "auth" -> 2
      [] category = "api" -> 3
      [] category = "unexpected" -> 1
      [] category = "usage" -> ArgparseErrorExit

\* which except clause of main catches the exception
CategoryOf(e) ==
    CASE e.type = "GitlabAuthenticationError" -> "auth"
      [] e.type = "GitlabError" -> "api"
      [] OTHER -> "unexpected"


\* ------------------------------------------------------------------ state
VARIABLES
    args,          \* parsed command line: flags present, max_retries, retry_backoff
    logfs,         \* --log-file and whether makedirs / open succeed on it
    remote,        \* remote[i]: the non-empty pages instance i serves
    pc,            \* position in main / fetch_projects
    inst,          \* instance being fetched (1 or 2)
    page, attempt, total, projects,   \* locals of fetch_projects
    exc,           \* exception in flight (or last raised)
    list1, list2, commons,            \* locals of main
    fetch_status,  \* per instance: not_started, running, ok, failed
    connects,      \* history: instances connected to, in order
    requests,      \* history: <<instance, page>> of each projects.list call
    sleeps,        \* history: <<instance, page, seconds>> of each time.sleep
    files,         \* report files written
    stderr_lines, log_lines,          \* lines logged to stderr / appended to the log file
    exit_code, outcome,               \* process exit status (None while running) and its category
    faults         \* failed projects.list responses so far

vars == <<args, logfs, remote, pc, inst, page, attempt, total, projects, exc,
          list1, list2, commons, fetch_status, connects, requests, sleeps,
          files, stderr_lines, log_lines, exit_code, outcome, faults>>

Instances == {1, 2}

Args(b, r, k) ==
    [url1 |-> b[1], token1 |-> b[2], url2 |-> b[3], token2 |-> b[4],
     out_json |-> b[5], out_csv |-> b[6], json_prefix |-> b[7], csv_prefix |-> b[8],
     max_retries |-> r, retry_backoff |-> k]

\* --out-json only, both connections given
PlainFlags == <<TRUE, TRUE, TRUE, TRUE, TRUE, FALSE, FALSE, FALSE>>

InitLocals ==
    /\ inst = 1 /\ page = 1 /\ attempt = 0 /\ total = 0 /\ projects = << >>
    /\ exc = NoExc
    /\ list1 = << >> /\ list2 = << >> /\ commons = << >>
    /\ fetch_status = [i \in Instances |-> "not_started"]
    /\ connects = << >> /\ requests = << >> /\ sleeps = << >>
    /\ files = {}
    /\ stderr_lines = 0 /\ log_lines = 0
    /\ exit_code = None /\ outcome = "running"
    /\ faults = 0

\* Runs over every combination of flags and every log setup, against remotes
\* of at most one page.
InitArguments ==
    /\ args \in {Args(b, 1, <<2, 1>>) : b \in [1..8 -> BOOLEAN]}
    /\ logfs \in LogSetups
    /\ remote \in [Instances -> PageSeqs(1)]

\* Runs over every retry budget, backoff and page sequence of instance 1, with
\* plain flags and a one-page instance 2.
InitFetch ==
    /\ args \in {Args(PlainFlags, r, k) : r \in 0..MaxRetries, k \in BackoffChoices}
    /\ logfs = [log_file |-> Some(<<"reports", "fetch.log">>), makedirs_ok |-> TRUE, open_ok |-> TRUE]
    /\ remote \in {[i \in Instances |-> IF i = 1 THEN s1 ELSE <<<<RawNoPath, RawA1>>>>] :
                      s1 \in PageSeqs(MaxPages)}

Init ==
    /\ InitArguments \/ InitFetch
    /\ pc = "parse_args"
    /\ InitLocals

\* ---------------------------------------------------------------- _Logger
HasDirName(log_file) == log_file # None /\ Len(log_file[1]) > 1

\* _Logger.__init__ raises iff os.makedirs fails
LoggerInitRaises(fs) == HasDirName(fs.log_file) /\ ~fs.makedirs_ok

\* n calls of _Logger.log: one line each to stderr, and to the file when it opens
Log(n) ==
    /\ stderr_lines' = stderr_lines + n
    /\ log_lines' = IF logfs.log_file # None /\ logfs.open_ok THEN log_lines + n ELSE log_lines

\* an exception nobody catches: traceback, interpreter exits with status 1
Uncaught(e) ==
    /\ exc' = e
    /\ exit_code' = Some(UncaughtExit)
    /\ outcome' = "unexpected"
    /\ pc' = "exited"

\* ------------------------------------------------------------------- main
ParseArgs ==
    /\ pc = "parse_args"
    /\ IF UsageError(args)
       THEN /\ exit_code' = Some(ExitCode("usage"))
            /\ outcome' = "usage"
            /\ pc' = "exited"
       ELSE /\ pc' = "logger_init"
            /\ UNCHANGED <<exit_code, outcome>>
    /\ UNCHANGED <<args, logfs, remote, inst, page, attempt, total, projects, exc,
                   list1, list2, commons, fetch_status, connects, requests, sleeps,
                   files, stderr_lines, log_lines, faults>>

LoggerInit ==
    /\ pc = "logger_init"
    /\ IF LoggerInitRaises(logfs)
       THEN Uncaught(Exc("OSError", None, "logger"))
       ELSE /\ pc' = "connect"
            /\ UNCHANGED <<exc, exit_code, outcome>>
    /\ UNCHANGED <<args, logfs, remote, inst, page, attempt, total, projects,
                   list1, list2, commons, fetch_status, connects, requests, sleeps,
                   files, stderr_lines, log_lines, faults>>

\* mutant: each fetch has its own try/except, so instance 2 is fetched after
\* instance 1 failed
AfterRaise_PerFetch(i) ==
    IF i = 1 THEN [pc |-> "connect", inst |-> 2] ELSE [pc |-> "except", inst |-> i]

\* an exception leaving fetch_projects(instance i) lands in main's except clauses
AfterRaise(i) == [pc |-> "except", inst |-> i]

\* connect(): gl.auth() succeeds or raises; on success the locals of
\* fetch_projects are initialised
Connect ==
    /\ pc = "connect"
    /\ connects' = Append(connects, inst)
    /\ \/ /\ projects' = << >> /\ page' = 1 /\ total' = 0
          /\ fetch_status' = [fetch_status EXCEPT ![inst] = "running"]
          /\ pc' = "page_start"
          /\ UNCHANGED <<exc, inst>>
       \/ \E e \in ConnectErrors :
            /\ exc' = e
            /\ fetch_status' = [fetch_status EXCEPT ![inst] = "failed"]
            /\ pc' = AfterRaise(inst).pc
            /\ inst' = AfterRaise(inst).inst
            /\ UNCHANGED <<projects, page, total>>
    /\ UNCHANGED <<args, logfs, remote, attempt, list1, list2, commons, requests, sleeps,
                   files, stderr_lines, log_lines, exit_code, outcome, faults>>

\* mutant: attempt is initialised once, before the page loop
StartPage_NoReset ==
    /\ pc = "page_start"
    /\ pc' = "request"
    /\ UNCHANGED <<args, logfs, remote, inst, page, attempt, total, projects, exc,
                   list1, list2, commons, fetch_status, connects, requests, sleeps,
                   files, stderr_lines, log_lines, exit_code, outcome, faults>>

\* top of the outer `while True`: attempt = 0
StartPage ==
    /\ pc = "page_start"
    /\ attempt' = 0
    /\ pc' = "request"
    /\ UNCHANGED <<args, logfs, remote, inst, page, total, projects, exc,
                   list1, list2, commons, fetch_status, connects, requests, sleeps,
                   files, stderr_lines, log_lines, exit_code, outcome, faults>>

\* one gl.projects.list call and, when it succeeds, the rest of the outer
\* loop body (empty page: return; otherwise accumulate and go to the next page)
RequestPage ==
    /\ pc = "request"
    /\ requests' = Append(requests, <<inst, page>>)
    /\ \/ LET page_items == PageAt(remote[inst], page)
              normalized == NormalizePage(page_items)
          IN IF page_items = << >>
             THEN /\ Log(2)
                  /\ fetch_status' = [fetch_status EXCEPT ![inst] = "ok"]
                  /\ IF inst = 1
                     THEN /\ list1' = projects /\ inst' = 2 /\ pc' = "connect"
                          /\ UNCHANGED list2
                     ELSE /\ list2' = projects /\ pc' = "compare"
                          /\ UNCHANGED <<list1, inst>>
                  /\ UNCHANGED <<projects, total, page, exc, faults>>
             ELSE /\ Log(2)
                  /\ projects' = Accumulate(projects, normalized)
                  /\ total' = total + Len(normalized)
                  /\ page' = page + 1
                  /\ pc' = "page_start"
                  /\ UNCHANGED <<list1, list2, inst, fetch_status, exc, faults>>
       \/ \E e \in ListErrors :
            /\ faults < MaxFaults
            /\ faults' = faults + 1
            /\ Log(1)
            /\ exc' = e
            /\ pc' = "handle_error"
            /\ UNCHANGED <<projects, total, page, list1, list2, inst, fetch_status>>
    /\ UNCHANGED <<args, logfs, remote, attempt, commons, connects, sleeps,
                   files, exit_code, outcome>>

\* the except clause of the retry loop
HandleError ==
    /\ pc = "handle_error"
    /\ Log(1)
    /\ IF GivesUp(exc.response_code, attempt, args.max_retries)
       THEN /\ fetch_status' = [fetch_status EXCEPT ![inst] = "failed"]
            /\ pc' = AfterRaise(inst).pc
            /\ inst' = AfterRaise(inst).inst
            /\ UNCHANGED <<attempt, sleeps, exc>>
       ELSE /\ attempt' = attempt + 1
            /\ sleeps' = Append(sleeps, <<inst, page, SleepFor(args.retry_backoff, attempt + 1)>>)
            /\ exc' = NoExc
            /\ pc' = "request"
            /\ UNCHANGED <<fetch_status, inst>>
    /\ UNCHANGED <<args, logfs, remote, page, total, projects, list1, list2, commons,
                   connects, requests, files, exit_code, outcome, faults>>

\* mutant: the except clauses report the error but do not return
MainExcept_FallThrough ==
    /\ pc = "except"
    /\ pc' = "compare"
    /\ UNCHANGED <<args, logfs, remote, inst, page, attempt, total, projects, exc,
                   list1, list2, commons, fetch_status, connects, requests, sleeps,
                   files, stderr_lines, log_lines, exit_code, outcome, faults>>

\* main's except clauses: print one line and return the category's code
MainExcept ==
    /\ pc = "except"
    /\ outcome' = CategoryOf(exc)
    /\ exit_code' = Some(ExitCode(CategoryOf(exc)))
    /\ pc' = "exited"
    /\ UNCHANGED <<args, logfs, remote, inst, page, attempt, total, projects, exc,
                   list1, list2, commons, fetch_status, connects, requests, sleeps,
                   files, stderr_lines, log_lines, faults>>

Compare ==
    /\ pc = "compare"
    /\ commons' = compare_by_path(list1, list2)
    /\ pc' = "write_out_json"
    /\ UNCHANGED <<args, logfs, remote, inst, page, attempt, total, projects, exc,
                   list1, list2, fetch_status, connects, requests, sleeps,
                   files, stderr_lines, log_lines, exit_code, outcome, faults>>

\* ---------------------------------------------------------- report writers
\* A writer either writes all its files, or raises OSError after writing the
\* first k of them; main does not catch that.
Prefixes(fs) == {SubSeq(fs, 1, k) : k \in 0..(Len(fs) - 1)}
Range(s) == {s[k] : k \in 1..Len(s)}

Writer(at, flag, outs, next) ==
    /\ pc = at
    /\ IF args[flag]
       THEN \/ /\ files' = files \cup Range(outs)
               /\ pc' = next
               /\ UNCHANGED <<exc, exit_code, outcome>>
            \/ \E part \in Prefixes(outs) :
                 /\ files' = files \cup Range(part)
                 /\ Uncaught(Exc("OSError", None, "writer"))
       ELSE /\ pc' = next
            /\ UNCHANGED <<files, exc, exit_code, outcome>>
    /\ UNCHANGED <<args, logfs, remote, inst, page, attempt, total, projects,
                   list1, list2, commons, fetch_status, connects, requests, sleeps,
                   stderr_lines, log_lines, faults>>

WriteOutJson == Writer("write_out_json", "out_json", <<"out.json">>, "write_out_csv")

WriteOutCsv == Writer("write_out_csv", "out_csv", <<"out.csv">>, "write_json_prefix")

WriteSeparateJson ==
    Writer("write_json_prefix", "json_prefix",
           <<"p_gitlab1.json", "p_gitlab2.json", "p_common.json">>, "write_csv_prefix")

WriteSeparateCsv ==
    Writer("write_csv_prefix", "csv_prefix",
           <<"p_gitlab1.csv", "p_gitlab2.csv", "p_common.csv">>, "return")

Return0 ==
    /\ pc = "return"
    /\ exit_code' = Some(ExitCode("success"))
    /\ outcome' = "success"
    /\ pc' = "exited"
    /\ UNCHANGED <<args, logfs, remote, inst, page, attempt, total, projects, exc,
                   list1, list2, commons, fetch_status, connects, requests, sleeps,
                   files, stderr_lines, log_lines, faults>>

Next ==
    \/ ParseArgs
    \/ LoggerInit
    \/ Connect
    \/ StartPage
    \/ RequestPage
    \/ HandleError
    \/ MainExcept
    \/ Compare
    \/ WriteOutJson
    \/ WriteOutCsv
    \/ WriteSeparateJson
    \/ WriteSeparateCsv
    \/ Return0

Spec == Init /\ [][Next]_vars


\* ------------------------------------------- compare_by_path on its own
RECURSIVE SeqsUpTo(_, _)
SeqsUpTo(S, n) ==
    IF n = 0 THEN {<< >>}
    ELSE SeqsUpTo(S, n - 1) \cup {Append(q, x) : q \in {t \in SeqsUpTo(S, n - 1) : Len(t) = n - 1}, x \in S}

\* main has both sequences and is about to call compare_by_path
InitCompare ==
    /\ args = Args(PlainFlags, 0, <<2, 1>>)
    /\ logfs = [log_file |-> None, makedirs_ok |-> TRUE, open_ok |-> TRUE]
    /\ remote = [i \in Instances |-> << >>]
    /\ pc = "compare"
    /\ inst = 2 /\ page = 1 /\ attempt = 0 /\ total = 0 /\ projects = << >>
    /\ exc = NoExc
    /\ list1 \in SeqsUpTo(NormRecords, MaxListLen)
    /\ list2 \in SeqsUpTo(NormRecords, MaxListLen)
    /\ commons = << >>
    /\ fetch_status = [i \in Instances |-> "ok"]
    /\ connects = << >> /\ requests = << >> /\ sleeps = << >>
    /\ files = {}
    /\ stderr_lines = 0 /\ log_lines = 0
    /\ exit_code = None /\ outcome = "running"
    /\ faults = 0

SpecCompare == InitCompare /\ [][Compare]_vars

\* ================================================================ claims
Count(seq, x) == Cardinality({k \in 1..Len(seq) : seq[k] = x})
SleepsOf(i, p) == SelectSeq(sleeps, LAMBDA sl : sl[1] = i /\ sl[2] = p)
\* <<instance, page>> never goes down from one request to the next
NonDecreasing(seq) ==
    \A k \in 1..(Len(seq) - 1) :
        seq[k][1] < seq[k + 1][1] \/ (seq[k][1] = seq[k + 1][1] /\ seq[k][2] <= seq[k + 1][2])

RECURSIVE FlattenNormalized(_)
FlattenNormalized(pages) ==
    IF pages = << >> THEN << >>
    ELSE [k \in 1..Len(pages[1]) |-> normalize_project(pages[1][k])] \o FlattenNormalized(Tail(pages))

Result(i) == IF i = 1 THEN list1 ELSE list2

\* C1: a fetch that returned yields the concatenation, in order, of the
\* normalized records of the pages before the empty one; it requested pages
\* 1..n+1 in order, each once plus once per retry slept for that page, and no
\* page after the empty one.
C1_PaginationConcatenation ==
    \A i \in Instances : fetch_status[i] = "ok" =>
        LET n == Len(remote[i]) IN
        /\ Result(i) = FlattenNormalized(remote[i])
        /\ \A p \in 1..(n + 1) : Count(requests, <<i, p>>) = 1 + Len(SleepsOf(i, p))
        /\ \A k \in 1..Len(requests) : requests[k][1] = i => requests[k][2] \in 1..(n + 1)
        /\ NonDecreasing(requests)

C1_Witness ==
    /\ pc = "exited" /\ outcome = "success"
    /\ Len(remote[1]) = 2 /\ remote[1][1] # remote[1][2]
    /\ Len(list1) = 3
    /\ Len(SleepsOf(1, 2)) = 1 /\ Count(requests, <<1, 1>>) = 1

ClaimTransient(code) == code # None /\ code[1] \in {429, 500, 502, 503, 504}

\* C2: the retry budget is per page: a page whose requests all fail with a
\* transient code is requested max_retries + 1 times before the fetch fails,
\* however many retries earlier pages used, and the k-th sleep of a page lasts
\* retry_backoff ^ k.
C2_RetryBudgetPerPage ==
    /\ \A i \in Instances : \A p \in 1..(MaxPages + 1) :
          LET sl == SleepsOf(i, p) IN
          /\ Len(sl) <= args.max_retries
          /\ \A k \in 1..Len(sl) :
                sl[k][3] = <<Pow(args.retry_backoff[1], k), Pow(args.retry_backoff[2], k)>>
    /\ (exc.origin = "list" /\ ClaimTransient(exc.response_code) /\ fetch_status[inst] = "failed")
          => /\ Count(requests, <<inst, page>>) = args.max_retries + 1
             /\ Len(SleepsOf(inst, page)) = args.max_retries

C2_Witness ==
    /\ pc = "exited" /\ outcome = "api"
    /\ exc.origin = "list" /\ ClaimTransient(exc.response_code)
    /\ args.max_retries >= 1
    /\ page = 2 /\ Len(SleepsOf(inst, 1)) >= 1
    /\ Count(requests, <<inst, 2>>) = args.max_retries + 1

FatalRaised == exc.origin = "list" /\ ~ClaimTransient(exc.response_code)

\* C3: once a page request has failed with a non-transient error, nothing
\* more happens on the network: no sleep, no request for that or a later
\* page, no connection.
C3_FatalAbortsImmediately ==
    [][FatalRaised => UNCHANGED <<requests, sleeps, connects>>]_vars

C3_Witness ==
    /\ pc = "exited" /\ FatalRaised
    /\ exc.response_code = Some(404)
    /\ attempt = 0 /\ args.max_retries = MaxRetries
    /\ page = 2 /\ sleeps # << >>
    /\ requests[Len(requests)] = <<inst, page>>

\* C4: report files exist only after both fetches returned; a run in which a
\* fetch failed has written none.
C4_NoReportOnFetchFailure ==
    /\ files # {} => \A i \in Instances : fetch_status[i] = "ok"
    /\ (\E i \in Instances : fetch_status[i] = "failed") => files = {}

C4_Witness ==
    /\ pc = "exited"
    /\ fetch_status[1] = "ok" /\ list1 # << >>
    /\ fetch_status[2] = "failed" /\ inst = 2 /\ page = 2 /\ projects # << >>
    /\ args.out_json /\ args.csv_prefix
    /\ files = {}

PathsOf(list) == {list[k].path : k \in 1..Len(list)} \ {<< >>}
Firsts == [k \in 1..Len(commons) |-> commons[k][1]]

\* seq is a subsequence of list, in list's order
InOrderOf(seq, list) ==
    \E f \in [1..Len(seq) -> 1..Len(list)] :
        /\ \A k \in 1..Len(seq) : seq[k] = list[f[k]]
        /\ \A j, k \in 1..Len(seq) : j < k => f[j] < f[k]

\* C5: the paths of the pairs are exactly the non-empty paths present in
\* both sequences; each pair is (record of list1, record of list2) with that
\* same path; the pairs follow list1's order; no record with an empty or
\* unmatched path is in a pair.
C5_MatchCorrectness ==
    pc = "write_out_json" =>
        /\ {commons[k][1].path : k \in 1..Len(commons)} = PathsOf(list1) \cap PathsOf(list2)
        /\ \A k \in 1..Len(commons) :
              /\ commons[k][1] \in Range(list1)
              /\ commons[k][2] \in Range(list2)
              /\ commons[k][1].path = commons[k][2].path
              /\ commons[k][1].path \in PathsOf(list1) \cap PathsOf(list2)
        /\ InOrderOf(Firsts, list1)

C5_Witness ==
    /\ pc = "write_out_json"
    /\ Len(commons) = 2 /\ commons[1][1].path # commons[2][1].path
    /\ commons[1][1] # commons[1][2]
    /\ \E k \in 1..Len(list1) : list1[k].path = << >>
    /\ \E k \in 1..Len(list2) : list2[k].path = << >>

PairsWithPath(x) == Cardinality({k \in 1..Len(commons) : commons[k][1].path = x})
RecordsWithPath(list, x) == Cardinality({k \in 1..Len(list) : list[k].path = x})

\* C6 as stated: at most one pair per distinct path value of list1.
C6_AtMostOnePairPerPath ==
    pc = "write_out_json" => \A x \in PathsOf(list1) : PairsWithPath(x) <= 1

\* C6 amended: one pair per record of list1 whose path is non-empty and occurs
\* in list2 (a path occurring k times in list1 gives k pairs); duplicates in
\* list2 never multiply pairs.
C6_OnePairPerRecord ==
    pc = "write_out_json" =>
        /\ Len(commons) <= Len(list1)
        /\ \A x \in PathsOf(list1) \cup PathsOf(list2) \cup {<< >>} :
              PairsWithPath(x) = IF x \in PathsOf(list2) THEN RecordsWithPath(list1, x) ELSE 0

C6_Witness ==
    /\ pc = "write_out_json"
    /\ \E x \in PathsOf(list1) :
          /\ PairsWithPath(x) = 2
          /\ RecordsWithPath(list2, x) = 2
          /\ list2[1] # list2[2]

Categories == {"success", "auth", "api", "unexpected", "usage"}
Requested ==
    (IF args.out_json THEN {"out.json"} ELSE {})
    \cup (IF args.out_csv THEN {"out.csv"} ELSE {})
    \cup (IF args.json_prefix THEN {"p_gitlab1.json", "p_gitlab2.json", "p_common.json"} ELSE {})
    \cup (IF args.csv_prefix THEN {"p_gitlab1.csv", "p_gitlab2.csv", "p_common.csv"} ELSE {})

\* C7: the exit code identifies the outcome category: no other category
\* exits with the code this run exited with, and 0 means both fetches
\* completed and the reports were written.
C7_ExitCodeIdentifiesCategory ==
    pc = "exited" =>
        /\ \A c \in Categories : ExitCode(c) = exit_code[1] => c = outcome
        /\ exit_code = Some(0) =>
              (\A i \in Instances : fetch_status[i] = "ok") /\ files = Requested

\* C8 as stated: after instance 1's fetch has failed, instance 2's fetch
\* still begins.
C8_Instance2FetchedAfterFailure ==
    (pc = "exited" /\ fetch_status[1] = "failed") => fetch_status[2] # "not_started"

\* C8 amended: instance 1's fetch completes before anything is sent to
\* instance 2, instance 2 is contacted only after instance 1's fetch
\* succeeded, and a failed fetch of instance 1 ends the run with instance 2
\* never contacted.
C8_SequentialAbortOnFailure ==
    /\ \A k \in 1..(Len(requests) - 1) : requests[k][1] <= requests[k + 1][1]
    /\ \A k \in 1..(Len(connects) - 1) : connects[k] < connects[k + 1]
    /\ \A k \in 1..Len(requests) : requests[k][1] \in Range(connects)
    /\ 2 \in Range(connects) => fetch_status[1] = "ok"
    /\ fetch_status[1] = "failed" => fetch_status[2] = "not_started" /\ 2 \notin Range(connects)

C8_Witness ==
    /\ pc = "exited"
    /\ fetch_status[1] = "failed" /\ exc.origin = "list" /\ page = 2
    /\ remote[2] # << >>
    /\ fetch_status[2] = "not_started"

\* C9: a failure of the log-file path never raises and never aborts the run.
C9_LogFailureNeverAborts ==
    logfs.log_file # None => ~(pc = "exited" /\ exc.origin = "logger")

ClaimUsageError(a) ==
    \/ ~a.url1 \/ ~a.token1 \/ ~a.url2 \/ ~a.token2
    \/ (a.out_json /\ a.out_csv)
    \/ ~(a.out_json \/ a.out_csv \/ a.json_prefix \/ a.csv_prefix)

\* C10: a run whose arguments are a usage error (missing URL or token, both
\* combined outputs, or no output at all) never connects, authenticates or
\* requests a page, and ends as a usage error.
C10_UsageErrorBeforeNetwork ==
    (ClaimUsageError(args) \/ outcome = "usage") =>
        /\ connects = << >> /\ requests = << >> /\ sleeps = << >>
        /\ pc = "exited" => outcome = "usage"

C10_Witness ==
    /\ pc = "exited" /\ outcome = "usage"
    /\ Missing(args) = {}
    /\ args.out_json /\ args.out_csv /\ args.json_prefix
    /\ logfs.log_file # None

====
